---- MODULE Spec2Model ----
(***************************************************************************)
(* SmartLoan 360 (src/app.py): the loan eligibility and offer engine       *)
(* (emi, FallbackModel, profile_risk, explain_profile, build_offers) and   *)
(* the Flask handlers around it (login, logout, dashboard).                *)
(*                                                                         *)
(* Numbers.  The program computes in IEEE doubles; the model computes in   *)
(* integers at fixed scales:                                               *)
(*   money (form values)          whole units, or NaN                      *)
(*   annual rates                 basis points (8.35 % = 835)              *)
(*   emi results, FOIR ratios     millionths (Micro), or NaN               *)
(*   stability coefficients       hundredths (0.85 = 85)                   *)
(*   probabilities                millionths                               *)
(* NaN is a value of its own: every comparison with it is false and every  *)
(* sum, product or quotient with it is NaN, as for doubles.                *)
(***************************************************************************)
EXTENDS Integers, Sequences, FiniteSets, TLC

VARIABLES
    session,   \* flask session: the logged-in username, or "" when "username" is absent
    model,     \* the module-level `model` chosen by load_model(): "fallback" or "learned"
    resp,      \* the HTTP response in flight to the client, or NoResp
    call       \* a direct call of one engine function: its name, arguments and result

vars == <<session, model, resp, call>>

\* Bound of the model: loan tenures run over whole years up to MaxTenureYears.
MaxTenureYears == 2
Tenures == {12 * k : k \in 1..MaxTenureYears}

-----------------------------------------------------------------------------
(* Fixed-point arithmetic standing for the doubles of the program.         *)

Micro == 1000 * 1000
FactorOne == 100 * Micro          \* 1.0 at the scale of the compound factor
NaN == 0 - (2 ^ 30)

IsNaN(x) == x = NaN

FAdd(a, b) == IF IsNaN(a) \/ IsNaN(b) THEN NaN ELSE a + b
FSub(a, b) == IF IsNaN(a) \/ IsNaN(b) THEN NaN ELSE a - b
FLt(a, b) == ~IsNaN(a) /\ ~IsNaN(b) /\ a < b
FLe(a, b) == ~IsNaN(a) /\ ~IsNaN(b) /\ a <= b
FGt(a, b) == FLt(b, a)
FGe(a, b) == FLe(b, a)

\* Python's max(a, b) and min(a, b): the first argument unless the second
\* compares greater (smaller); with a NaN no comparison is true.
PyMax(a, b) == IF FGt(b, a) THEN b ELSE a
PyMin(a, b) == IF FLt(b, a) THEN b ELSE a

\* round(n / d) for n >= 0, d > 0: to nearest, ties to even (Python 3 round()).
RoundDiv(n, d) ==
    LET q == n \div d
        r == n % d
    IN  IF 2 * r < d THEN q
        ELSE IF 2 * r > d THEN q + 1
        ELSE IF q % 2 = 0 THEN q ELSE q + 1

\* round(units + frac / Micro) for 0 <= frac < Micro, ties to even
RoundParts(units, frac) ==
    IF 2 * frac < Micro THEN units
    ELSE IF 2 * frac > Micro THEN units + 1
    ELSE IF units % 2 = 0 THEN units ELSE units + 1

\* <<hi, lo>> with x * y = hi * Micro + lo, 0 <= lo < Micro, by three-digit limbs
\* (x, y >= 0; keeps every intermediate product inside 32 bits).
MulMicro(x, y) ==
    LET xh == x \div 1000
        xl == x % 1000
        yh == y \div 1000
        yl == y % 1000
        mid == xh * yl + xl * yh
        low == (mid % 1000) * 1000 + xl * yl
    IN  <<xh * yh + mid \div 1000 + low \div Micro, low % Micro>>

\* floor(n * 10^k / d) continued from quotient q and remainder r, digit by digit.
RECURSIVE DivDigits(_, _, _, _)
DivDigits(q, r, d, k) ==
    IF k = 0 THEN q
    ELSE DivDigits(q * 10 + (r * 10) \div d, (r * 10) % d, d, k - 1)

-----------------------------------------------------------------------------
(* emi(principal, annual_rate, months), src/app.py:87-92.                  *)
(* annual_rate in basis points, so monthly_rate = bp / 120000; the result  *)
(* in millionths of a unit.  months >= 1 in every call the model makes.    *)

\* factor * (1 + monthly_rate), rounded, at scale FactorOne.
Compound(f, bp) ==
    LET a == (f \div 10000) * bp
        b == (f % 10000) * bp
    IN  f + a \div 12 + ((a % 12) * 10000 + b + 60000) \div 120000

\* factor = (1 + monthly_rate) ** months
RECURSIVE Factor(_, _)
Factor(bp, months) ==
    IF months = 0 THEN FactorOne ELSE Compound(Factor(bp, months - 1), bp)

emi(principal, annual_rate, months) ==
    IF IsNaN(principal) THEN NaN
    ELSE IF annual_rate = 0 THEN (principal * Micro) \div months
    ELSE
        LET d == Factor(annual_rate, months) - FactorOne
            \* factor / (factor - 1) = 1 + 1 / (factor - 1), in millionths
            ratio == Micro + DivDigits(FactorOne \div d, FactorOne % d, d, 6)
            p == MulMicro(principal * annual_rate, ratio)
            h == p[1] * 25
        IN  h \div 3 + ((h % 3) * 40000 + p[2]) \div 120000

-----------------------------------------------------------------------------
(* FallbackModel, src/app.py:15-28.  X[0] = (monthly_income, loan_amount,   *)
(* credit_score).                                                          *)

FMul(a, k) == IF IsNaN(a) THEN NaN ELSE a * k

\* monthly_income - loan_amount / 120, times 120 (a whole number of units)
IncomeMargin120(monthly_income, loan_amount) ==
    FSub(FMul(monthly_income, 120), loan_amount)

FallbackModel_predict(monthly_income, loan_amount, credit_score) ==
    LET income_gate == FGe(IncomeMargin120(monthly_income, loan_amount), 0)
        credit_gate == credit_score >= 650
    IN  IF income_gate /\ credit_gate THEN 1 ELSE 0

\* probability of approval, in millionths (or NaN)
FallbackModel_predict_proba(monthly_income, loan_amount, credit_score) ==
    LET credit_term == IF credit_score < 500 THEN 0
                       ELSE ((credit_score - 500) * Micro) \div 360
        margin == IncomeMargin120(monthly_income, loan_amount)
        \* (monthly_income - loan_amount / 120) / 120000
        income_term == IF IsNaN(margin) THEN NaN
                       ELSE IF margin < 0 THEN 0 - (((0 - margin) * 5) \div 72)
                       ELSE (margin * 5) \div 72
        score == FAdd(220000 + PyMin(PyMax(credit_term, 0), 530000),
                      PyMin(PyMax(income_term, 0), 200000))
    IN  PyMin(PyMax(score, 50000), 950000)

-----------------------------------------------------------------------------
(* Module data, src/app.py:41-80.                                          *)

USERS ==
    [admin |-> [password |-> "smartloan360", name |-> "Platform Admin"],
     analyst |-> [password |-> "loanmarket123", name |-> "Credit Analyst"]]

Bank(n, rate, credit, foir, fee) ==
    [name |-> n, base_rate |-> rate, min_credit |-> credit, max_foir |-> foir,
     processing_fee |-> fee]

\* base_rate in basis points, max_foir in millionths, processing_fee in
\* hundredths of a percent
BANKS ==
    [Home |-> <<Bank("SBI", 835, 680, 550000, 60),
                Bank("HDFC", 855, 710, 520000, 75),
                Bank("Axis", 872, 695, 540000, 70),
                Bank("ICICI", 868, 700, 530000, 80)>>,
     Education |-> <<Bank("SBI", 895, 650, 580000, 50),
                     Bank("Bank of Baroda", 910, 640, 590000, 40),
                     Bank("Axis", 925, 655, 570000, 65)>>,
     Personal |-> <<Bank("HDFC", 1120, 730, 480000, 130),
                    Bank("ICICI", 1145, 725, 500000, 110),
                    Bank("Axis", 1180, 710, 500000, 120)>>,
     Business |-> <<Bank("HDFC", 1045, 700, 550000, 100),
                    Bank("ICICI", 1080, 695, 560000, 110),
                    Bank("Kotak", 1095, 690, 570000, 95)>>]

\* stability coefficients in hundredths
EMPLOYMENT_STABILITY == [salaried |-> 100, self_employed |-> 85, freelancer |-> 75]

-----------------------------------------------------------------------------
(* profile_risk(credit_score, foir, stability), src/app.py:95-125.         *)
(* foir in millionths (or NaN), stability in hundredths.                   *)

CreditRiskDelta(credit_score) ==
    IF credit_score >= 760 THEN 0 - 35
    ELSE IF credit_score >= 700 THEN 0 - 22
    ELSE IF credit_score >= 650 THEN 0 - 10
    ELSE 0

\* faulty variant: the FOIR bands read with < where the code has <=
FoirRiskDelta_exclusive(foir) ==
    IF FLt(foir, 350000) THEN 0 - 25
    ELSE IF FLt(foir, 450000) THEN 0 - 15
    ELSE IF FLt(foir, 550000) THEN 0 - 5
    ELSE 20

FoirRiskDelta(foir) ==
    IF FLe(foir, 350000) THEN 0 - 25
    ELSE IF FLe(foir, 450000) THEN 0 - 15
    ELSE IF FLe(foir, 550000) THEN 0 - 5
    ELSE 20

StabilityRiskDelta(stability) ==
    IF stability >= 95 THEN 0 - 12
    ELSE IF stability < 80 THEN 10
    ELSE 0

RawRisk(credit_score, foir, stability) ==
    100 + CreditRiskDelta(credit_score) + FoirRiskDelta(foir)
        + StabilityRiskDelta(stability)

\* faulty variant: the score is not clamped
ClampRisk_none(risk_score) == risk_score

ClampRisk(risk_score) == PyMax(5, PyMin(95, risk_score))

RiskLabel(risk_score) ==
    IF risk_score <= 35 THEN "Low"
    ELSE IF risk_score <= 60 THEN "Medium"
    ELSE "High"

profile_risk(credit_score, foir, stability) ==
    LET risk_score == ClampRisk(RawRisk(credit_score, foir, stability))
    IN  [label |-> RiskLabel(risk_score), score |-> risk_score]

-----------------------------------------------------------------------------
(* explain_profile(data, decision_confidence, risk_label),                 *)
(* src/app.py:128-151.                                                     *)

ReasonCredit == "Strong credit profile increases lender trust."
ReasonFoir == "Healthy FOIR indicates manageable repayment capacity."
ReasonDisposable == "Disposable income supports stable EMI servicing."
CautionCredit == "Credit score is below preferred range for premium offers."
CautionFoir == "FOIR is high; lenders may reduce sanction amount."
CautionConfidence == "Eligibility confidence is moderate; terms may vary by lender."
CautionSensitive == "Overall profile is sensitive to higher loan burden."

\* the cautions of the rules before the High-risk fallback, in order
RuleCautions(data, decision_confidence) ==
    (IF data.credit_score < 740 /\ data.credit_score < 670
        THEN <<CautionCredit>> ELSE <<>>)
    \o (IF ~FLe(data.foir, 400000) /\ FGt(data.foir, 550000)
           THEN <<CautionFoir>> ELSE <<>>)
    \o (IF decision_confidence < 55 THEN <<CautionConfidence>> ELSE <<>>)

\* faulty variant: the fallback caution does not test `not cautions`
FallbackCaution_always(risk_label, cautions) ==
    IF risk_label = "High" THEN <<CautionSensitive>> ELSE <<>>

FallbackCaution(risk_label, cautions) ==
    IF risk_label = "High" /\ cautions = <<>> THEN <<CautionSensitive>> ELSE <<>>

explain_profile(data, decision_confidence, risk_label) ==
    LET reasons ==
            (IF data.credit_score >= 740 THEN <<ReasonCredit>> ELSE <<>>)
            \o (IF FLe(data.foir, 400000) THEN <<ReasonFoir>> ELSE <<>>)
            \o (IF FGe(FMul(data.disposable_income, 100), FMul(data.monthly_income, 35))
                   THEN <<ReasonDisposable>> ELSE <<>>)
        cautions == RuleCautions(data, decision_confidence)
    IN  [reasons |-> reasons,
         cautions |-> cautions \o FallbackCaution(risk_label, cautions)]

-----------------------------------------------------------------------------
(* build_offers(profile, prediction, confidence), src/app.py:154-201.      *)
(* A result is [error, offers, evaluated, divided]: the exception raised   *)
(* ("none" when the call returns), the list returned, and two counters of  *)
(* what the loop did: lenders whose body was entered, and evaluations of   *)
(* combined_obligation / monthly_income.                                   *)

credit_adjustment(profile) ==
    IF profile.credit_score >= 760 THEN 0 - 35
    ELSE IF profile.credit_score >= 720 THEN 0 - 15
    ELSE 20

foir_adjustment(profile) ==
    IF FLe(profile.foir, 400000) THEN 0 - 10
    ELSE IF FGt(profile.foir, 500000) THEN 25
    ELSE 0

stability_adjustment(profile) ==
    IF profile.stability >= 100 THEN 0 - 10
    ELSE IF profile.stability < 80 THEN 20
    ELSE 0

\* round(max(base_rate + adjustments, 7.75), 2), in basis points
effective_rate(profile, bank) ==
    PyMax(bank.base_rate + credit_adjustment(profile) + foir_adjustment(profile)
              + stability_adjustment(profile),
          775)

\* (existing_emi + monthly_emi) / monthly_income in millionths, for
\* monthly_income # 0 (the callers raise ZeroDivisionError before)
ObligationRatio(existing_emi, monthly_emi, monthly_income) ==
    LET combined_obligation == FAdd(FMul(existing_emi, Micro), monthly_emi)
    IN  IF IsNaN(combined_obligation) \/ IsNaN(monthly_income) THEN NaN
        ELSE combined_obligation \div monthly_income

actual_foir(profile, monthly_emi) ==
    ObligationRatio(profile.existing_emi, monthly_emi, profile.monthly_income)

\* faulty variant: the ratio is held against 1.0, not the lender's max_foir
ExceedsMaxFoir_unit(foir, bank) == FGt(foir, Micro)

\* actual_foir > bank["max_foir"]
ExceedsMaxFoir(foir, bank) == FGt(foir, bank.max_foir)

\* bank_fit = int(max(35, min(98, 100 - (rate - base) * 10
\*                                 - max(foir - 0.35, 0) * 120 + (confidence - 50) * 0.2)))
bank_fit(rate, bank, foir, confidence) ==
    LET fit == FAdd(FSub(100 * Micro - (rate - bank.base_rate) * 100000,
                         FMul(PyMax(FSub(foir, 350000), 0), 120)),
                    (confidence - 50) * 200000)
    IN  PyMax(35 * Micro, PyMin(98 * Micro, fit)) \div Micro

\* int(round(monthly_emi * tenure_months + loan_amount * (processing_fee / 100)))
total_payable(profile, bank, monthly_emi) ==
    LET whole == monthly_emi \div Micro
        part == (monthly_emi % Micro) * profile.tenure_months
        fee == profile.loan_amount * bank.processing_fee
        frac == (part % Micro) + (fee % 10000) * 100
        units == whole * profile.tenure_months + part \div Micro + fee \div 10000
                     + frac \div Micro
    IN  RoundParts(units, frac % Micro)

MakeOffer(profile, bank, rate, monthly_emi, foir, confidence) ==
    [bank |-> bank.name,
     rate |-> rate,
     emi |-> RoundDiv(monthly_emi, Micro),
     total_payable |-> total_payable(profile, bank, monthly_emi),
     processing_fee |-> bank.processing_fee,
     approval |-> bank_fit(rate, bank, foir, confidence),
     foir |-> IF IsNaN(foir) THEN NaN ELSE RoundDiv(foir, 1000),
     tag |-> IF rate <= bank.base_rate THEN "Best Rate" ELSE "Fast Approval"]

\* the sort key (x["rate"], -x["approval"], x["emi"]) compared as tuples
KeyLess(a, b) ==
    \/ a.rate < b.rate
    \/ a.rate = b.rate /\ a.approval > b.approval
    \/ a.rate = b.rate /\ a.approval = b.approval /\ a.emi < b.emi

\* list.sort(key=...): stable, so an element goes after every element whose key
\* is not greater than its own
RECURSIVE InsertOffer(_, _)
InsertOffer(sorted, x) ==
    IF sorted = <<>> THEN <<x>>
    ELSE IF KeyLess(x, Head(sorted)) THEN <<x>> \o sorted
    ELSE <<Head(sorted)>> \o InsertOffer(Tail(sorted), x)

\* faulty variant: the list is returned in catalog order
SortOffers_unsorted(offers) == offers

RECURSIVE SortOffers(_)
SortOffers(offers) ==
    IF offers = <<>> THEN <<>>
    ELSE InsertOffer(SortOffers(SubSeq(offers, 1, Len(offers) - 1)),
                     offers[Len(offers)])

\* One pass of the for loop over the lenders from index i on.
RECURSIVE ScanBanks(_, _, _, _, _)
ScanBanks(profile, confidence, banks, i, acc) ==
    IF i > Len(banks) THEN acc
    ELSE
        LET bank == banks[i]
            entered == [acc EXCEPT !.evaluated = @ + 1]
        IN
        IF profile.credit_score < bank.min_credit
        THEN ScanBanks(profile, confidence, banks, i + 1, entered)
        ELSE
            LET rate == effective_rate(profile, bank)
                monthly_emi == emi(profile.loan_amount, rate, profile.tenure_months)
                reached == [entered EXCEPT !.divided = @ + 1]
            IN
            IF profile.monthly_income = 0
            THEN [reached EXCEPT !.error = "ZeroDivisionError", !.offers = <<>>]
            ELSE
                LET foir == actual_foir(profile, monthly_emi)
                IN
                IF ExceedsMaxFoir(foir, bank)
                THEN ScanBanks(profile, confidence, banks, i + 1, reached)
                ELSE IF IsNaN(monthly_emi)
                THEN \* int(round(nan))
                     [reached EXCEPT !.error = "ValueError", !.offers = <<>>]
                ELSE ScanBanks(profile, confidence, banks, i + 1,
                         [reached EXCEPT !.offers =
                              Append(@, MakeOffer(profile, bank, rate, monthly_emi,
                                                  foir, confidence))])

NoOffers == [error |-> "none", offers |-> <<>>, evaluated |-> 0, divided |-> 0]

\* faulty variant: a denial empties the list after the lenders were evaluated
build_offers_late_denial(profile, prediction, confidence) ==
    IF profile.loan_type \notin DOMAIN BANKS
    THEN [NoOffers EXCEPT !.error = "KeyError"]
    ELSE
        LET scanned == ScanBanks(profile, confidence, BANKS[profile.loan_type], 1, NoOffers)
        IN  IF scanned.error # "none" THEN scanned
            ELSE IF prediction # 1 THEN [scanned EXCEPT !.offers = <<>>]
            ELSE [scanned EXCEPT !.offers = SortOffers(@)]

build_offers(profile, prediction, confidence) ==
    IF prediction # 1 THEN NoOffers
    ELSE IF profile.loan_type \notin DOMAIN BANKS
    THEN [NoOffers EXCEPT !.error = "KeyError"]
    ELSE
        LET scanned == ScanBanks(profile, confidence, BANKS[profile.loan_type], 1, NoOffers)
        IN  IF scanned.error # "none" THEN scanned
            ELSE [scanned EXCEPT !.offers = SortOffers(@)]

-----------------------------------------------------------------------------
(* The Flask handlers, src/app.py:83-85 and 204-325.  A request carries    *)
(* its form as text; a response is a redirect, a rendered template or an   *)
(* uncaught exception (HTTP 500).  A response also records, in `calls`,    *)
(* the engine functions the handler invoked, in order, and in `profile`    *)
(* the values it invoked them with.                                        *)

NoResp == [kind |-> "none"]
NoProfile == [loan_type |-> ""]

Redirect(to, message) ==
    [kind |-> "redirect", to |-> to, flash |-> message, calls |-> <<>>,
     profile |-> NoProfile]

Render(template, message, user_name) ==
    [kind |-> "render", template |-> template, flash |-> message,
     user_name |-> user_name, calls |-> <<>>, profile |-> NoProfile]

\* an exception no handler catches
ServerError(exception, calls, profile) ==
    [kind |-> "error", exception |-> exception, calls |-> calls, profile |-> profile]

login_required == session # ""

\* int(text) and float(text): the decimal texts the requests use
Decimal ==
    ("-5" :> 0 - 5) @@ ("-1" :> 0 - 1) @@ ("0" :> 0) @@ ("6" :> 6) @@ ("10" :> 10)
    @@ ("20" :> 20) @@ ("35" :> 35) @@ ("50" :> 50) @@ ("66" :> 66) @@ ("150" :> 150)
    @@ ("299" :> 299) @@ ("640" :> 640) @@ ("705" :> 705) @@ ("770" :> 770)
    @@ ("901" :> 901) @@ ("1000" :> 1000)
    @@ [t \in {ToString(12 * k) : k \in 1..MaxTenureYears} |->
            CHOOSE n \in Tenures : ToString(n) = t]

\* int(): a decimal integer, else ValueError ("nan" and "abc" are none)
ParseInt(text) ==
    IF text \in DOMAIN Decimal THEN [ok |-> TRUE, v |-> Decimal[text]]
    ELSE [ok |-> FALSE, v |-> 0]

\* float(): a decimal number or "nan", else ValueError
ParseFloat(text) ==
    IF text = "nan" THEN [ok |-> TRUE, v |-> NaN] ELSE ParseInt(text)

\* str.strip().lower() on the usernames the requests use
StripLower(text) == IF text = " Admin " THEN "admin" ELSE text

\* (request.form.get("full_name", "Applicant").strip() or "Applicant")
FullName(text) == IF text = "" THEN "Applicant" ELSE text

(* login(), src/app.py:204-221 *)
login(method, username, password) ==
    IF login_required THEN <<session, Redirect("dashboard", "")>>
    ELSE IF method = "POST"
    THEN LET name == StripLower(username)
         IN  IF name \in DOMAIN USERS /\ USERS[name].password = password
             THEN <<name, Redirect("dashboard", "")>>
             ELSE <<session,
                    Render("login.html",
                           "Invalid credentials. Use admin/smartloan360 for demo access.",
                           "")>>
    ELSE <<session, Render("login.html", "", "")>>

(* the validation checks of dashboard(), src/app.py:251-269 *)
SupportedLoanType(loan_type) == loan_type \in DOMAIN BANKS
ValidAge(age) == 21 <= age /\ age <= 65
ValidAmounts(monthly_income, loan_amount, tenure_months) ==
    ~(FLe(monthly_income, 0) \/ FLe(loan_amount, 0) \/ tenure_months < 12)
ValidObligations(monthly_expenses, existing_emi) ==
    ~(FLt(monthly_expenses, 0) \/ FLt(existing_emi, 0))
ValidCredit(credit_score) == 300 <= credit_score /\ credit_score <= 900

\* faulty variant: an approval is APPROVED whether or not a lender made an offer
DecisionStatus_ignores_offers(prediction, offers) ==
    IF prediction = 1 THEN "APPROVED" ELSE "REJECTED"

(* status, src/app.py:302-307 *)
DecisionStatus(prediction, offers) ==
    IF prediction = 1 /\ offers # <<>> THEN "APPROVED"
    ELSE IF prediction = 1 THEN "CONDITIONAL"
    ELSE "REJECTED"

NoOffer == [bank |-> "None"]

(* model.predict(X) and model.predict_proba(X), src/app.py:277-279.  The   *)
(* fallback is the code above; a learned model.pkl is not part of the      *)
(* program, and `answer` is what it returns (or that it raises).           *)
Predict(monthly_income, loan_amount, credit_score, answer) ==
    IF model = "fallback"
    THEN LET proba == FallbackModel_predict_proba(monthly_income, loan_amount, credit_score)
         IN  [raised |-> IF IsNaN(proba) THEN "confidence" ELSE "none",
              prediction |-> FallbackModel_predict(monthly_income, loan_amount, credit_score),
              \* int(round(float(p * 100)))
              confidence |-> IF IsNaN(proba) THEN 0 ELSE RoundDiv(proba, 10000)]
    ELSE answer

(* the engine part of dashboard(), src/app.py:271-323 *)
Evaluate(v, answer) ==
    LET stability == IF v.employment \in DOMAIN EMPLOYMENT_STABILITY
                     THEN EMPLOYMENT_STABILITY[v.employment] ELSE 80
        disposable_income ==
            PyMax(FSub(FSub(v.monthly_income, v.monthly_expenses), v.existing_emi), 0)
        baseline_emi == emi(v.loan_amount, 1000, v.tenure_months)
        foir == ObligationRatio(v.existing_emi, baseline_emi, v.monthly_income)
        predicted == Predict(v.monthly_income, v.loan_amount, v.credit_score, answer)
        risk == profile_risk(v.credit_score, foir, stability)
        profile == [full_name |-> v.full_name, age |-> v.age,
                    employment |-> v.employment,
                    monthly_income |-> v.monthly_income,
                    monthly_expenses |-> v.monthly_expenses,
                    existing_emi |-> v.existing_emi,
                    credit_score |-> v.credit_score,
                    loan_amount |-> v.loan_amount,
                    tenure_months |-> v.tenure_months,
                    loan_type |-> v.loan_type,
                    disposable_income |-> disposable_income,
                    foir |-> foir, stability |-> stability]
        built == build_offers(profile, predicted.prediction, predicted.confidence)
        explained == explain_profile(profile, predicted.confidence, risk.label)
    IN  IF predicted.raised = "predict"
        THEN ServerError("ValueError", <<"predict">>, profile)
        ELSE IF predicted.raised # "none"
        THEN ServerError("ValueError", <<"predict", "predict_proba">>, profile)
        ELSE IF built.error # "none"
        THEN ServerError(built.error,
                         <<"predict", "predict_proba", "profile_risk", "build_offers">>,
                         profile)
        ELSE [kind |-> "render", template |-> "result.html", flash |-> "",
              calls |-> <<"predict", "predict_proba", "profile_risk", "build_offers",
                          "explain_profile">>,
              status |-> DecisionStatus(predicted.prediction, built.offers),
              prediction |-> predicted.prediction,
              confidence |-> predicted.confidence,
              risk_label |-> risk.label, risk_score |-> risk.score,
              profile |-> profile, offers |-> built.offers,
              best_offer |-> IF built.offers # <<>> THEN built.offers[1] ELSE NoOffer,
              reasons |-> explained.reasons, cautions |-> explained.cautions]

(* dashboard(), src/app.py:230-325 *)
dashboard(method, form, answer) ==
    IF ~login_required THEN Redirect("login", "")
    ELSE IF method = "POST"
    THEN
        LET age == ParseInt(form.age)
            monthly_income == ParseFloat(form.monthly_income)
            monthly_expenses == ParseFloat(form.monthly_expenses)
            existing_emi == ParseFloat(form.existing_emi)
            credit_score == ParseInt(form.credit_score)
            loan_amount == ParseFloat(form.loan_amount)
            tenure_months == ParseInt(form.tenure_months)
            v == [full_name |-> FullName(form.full_name), age |-> age.v,
                  employment |-> form.employment,
                  monthly_income |-> monthly_income.v,
                  monthly_expenses |-> monthly_expenses.v,
                  existing_emi |-> existing_emi.v,
                  credit_score |-> credit_score.v,
                  loan_amount |-> loan_amount.v,
                  tenure_months |-> tenure_months.v,
                  loan_type |-> form.loan_type]
        IN
        IF ~(age.ok /\ monthly_income.ok /\ monthly_expenses.ok /\ existing_emi.ok
                /\ credit_score.ok /\ loan_amount.ok /\ tenure_months.ok)
        THEN Redirect("dashboard",
                      "Invalid numeric input. Please review your profile values.")
        ELSE IF ~SupportedLoanType(v.loan_type)
        THEN Redirect("dashboard", "Unsupported loan type selected.")
        ELSE IF ~ValidAge(v.age)
        THEN Redirect("dashboard", "Age should be between 21 and 65 years.")
        ELSE IF ~ValidAmounts(v.monthly_income, v.loan_amount, v.tenure_months)
        THEN Redirect("dashboard",
                      "Income, loan amount, and tenure should be valid positive values.")
        ELSE IF ~ValidObligations(v.monthly_expenses, v.existing_emi)
        THEN Redirect("dashboard", "Expenses and existing EMI cannot be negative.")
        ELSE IF ~ValidCredit(v.credit_score)
        THEN Redirect("dashboard", "Credit score must be between 300 and 900.")
        ELSE Evaluate(v, answer)
    ELSE Render("dashboard.html", "", USERS[session].name)

-----------------------------------------------------------------------------
(* The requests.                                                           *)

Methods == {"GET", "POST"}
Usernames == {"admin", " Admin ", "analyst", "guest"}
Passwords == {"smartloan360", "loanmarket123", "letmein"}

Forms ==
    [full_name : {""},
     age : {"20", "35", "66"},
     employment : {"salaried", "self_employed", "freelancer", "gig"},
     monthly_income : {"0", "50", "150", "nan"},
     monthly_expenses : {"-5", "20", "nan"},
     existing_emi : {"-1", "0", "10", "nan"},
     credit_score : {"299", "640", "705", "770", "901"},
     loan_amount : {"0", "1000", "nan"},
     tenure_months : {"6", "abc"} \cup {ToString(12 * k) : k \in 1..MaxTenureYears},
     loan_type : {"Home", "Personal", "Gold"}]

\* what a learned model may answer; the fallback takes no answer
NoAnswer == [raised |-> "none", prediction |-> 0, confidence |-> 0]
NoForm == [loan_type |-> ""]
LearnedConfidences == {48, 81}
Answers ==
    IF model = "fallback" THEN {NoAnswer}
    ELSE [raised : {"none"}, prediction : {0, 1}, confidence : LearnedConfidences]
         \cup {[raised |-> "predict", prediction |-> 0, confidence |-> 0]}

HasNaN(form) ==
    "nan" \in {form.monthly_income, form.loan_amount}

Login ==
    /\ resp = NoResp
    /\ \E method \in Methods, username \in Usernames, password \in Passwords :
         LET r == login(method, username, password)
         IN  /\ session' = r[1]
             /\ resp' = r[2]
    /\ UNCHANGED <<model, call>>

(* logout(), src/app.py:224-227 *)
Logout ==
    /\ resp = NoResp
    /\ session' = ""
    /\ resp' = Redirect("login", "")
    /\ UNCHANGED <<model, call>>

DashboardGet ==
    /\ resp = NoResp
    /\ resp' = dashboard("GET", NoForm, NoAnswer)
    /\ UNCHANGED <<session, model, call>>

DashboardPost ==
    /\ resp = NoResp
    /\ \E form \in Forms, answer \in Answers :
         \* X holds NaN only when income or amount does; a model raises on nothing else
         /\ answer.raised = "predict" => HasNaN(form)
         /\ resp' = dashboard("POST", form, answer)
    /\ UNCHANGED <<session, model, call>>

\* the response reaches the client
Deliver ==
    /\ resp # NoResp
    /\ resp' = NoResp
    /\ UNCHANGED <<session, model, call>>

(* load_model(), src/app.py:31-39: model.pkl is there or the fallback is used *)
Init ==
    /\ session = ""
    /\ model \in {"fallback", "learned"}
    /\ resp = NoResp
    /\ call = [fn |-> "none"]

Next ==
    \/ Login
    \/ Logout
    \/ DashboardGet
    \/ DashboardPost
    \/ Deliver

Spec == Init /\ [][Next]_vars

-----------------------------------------------------------------------------
NoCall == [fn |-> "none"]

Amounts == {600, 1000}
LargeAmount == 20 * 1000
Rates == {0, 780, 835, 1000, 1245}
Incomes == {0, 51, 150}
ExistingEmis == {0, 10}
CreditScores == {300, 499, 649, 650, 669, 670, 699, 700, 739, 740, 759, 760, 900}
Foirs == {300000, 350000, 350001, 400000, 400001, 450000, 450001, 550000, 550001, 900000}
Stabilities == {100, 95, 85, 80, 79, 75}
Disposables == {0, 34, 35, 100}
ExplainIncomes == {100}
Confidences == {30, 54, 55, 95}
LoanTypes == {"Home", "Education", "Personal", "Business", "Gold"}
OfferCredits == {640, 690, 700, 725, 770}
OfferFoirs == {300000, 450000, 600000}
OfferStabilities == {100, 85, 75}
OfferConfidences == {42, 67, 95}
Predictions == {0, 1, 2}

Call_emi ==
    /\ call = NoCall
    /\ \E p \in Amounts, r \in Rates, m \in Tenures :
         call' = [fn |-> "emi", principal |-> p, annual_rate |-> r, months |-> m,
                  ret |-> emi(p, r, m)]
    /\ UNCHANGED <<session, model, resp>>

Call_predict ==
    /\ call = NoCall
    /\ \E i \in Incomes, a \in Amounts \cup {LargeAmount}, c \in CreditScores :
         call' = [fn |-> "predict", monthly_income |-> i, loan_amount |-> a,
                  credit_score |-> c,
                  ret |-> FallbackModel_predict(i, a, c),
                  proba |-> FallbackModel_predict_proba(i, a, c)]
    /\ UNCHANGED <<session, model, resp>>

Call_profile_risk ==
    /\ call = NoCall
    /\ \E c \in CreditScores, f \in Foirs, s \in Stabilities :
         call' = [fn |-> "profile_risk", credit_score |-> c, foir |-> f,
                  stability |-> s, raw |-> RawRisk(c, f, s),
                  ret |-> profile_risk(c, f, s)]
    /\ UNCHANGED <<session, model, resp>>

Call_explain_profile ==
    /\ call = NoCall
    /\ \E c \in CreditScores, f \in Foirs, d \in Disposables, i \in ExplainIncomes,
          k \in Confidences, l \in {"Low", "Medium", "High"} :
         LET data == [credit_score |-> c, foir |-> f, disposable_income |-> d,
                      monthly_income |-> i]
         IN  call' = [fn |-> "explain_profile", data |-> data,
                      decision_confidence |-> k, risk_label |-> l,
                      ret |-> explain_profile(data, k, l)]
    /\ UNCHANGED <<session, model, resp>>

Call_build_offers ==
    /\ call = NoCall
    /\ \E t \in LoanTypes, c \in OfferCredits, f \in OfferFoirs, s \in OfferStabilities,
          a \in Amounts, m \in Tenures, e \in ExistingEmis, i \in Incomes,
          p \in Predictions, k \in OfferConfidences :
         LET profile == [loan_type |-> t, credit_score |-> c, foir |-> f,
                         stability |-> s, loan_amount |-> a, tenure_months |-> m,
                         existing_emi |-> e, monthly_income |-> i]
         IN  call' = [fn |-> "build_offers", profile |-> profile, prediction |-> p,
                      confidence |-> k, ret |-> build_offers(profile, p, k)]
    /\ UNCHANGED <<session, model, resp>>

EngineInit ==
    /\ session = ""
    /\ model = "fallback"
    /\ resp = NoResp
    /\ call = NoCall

EngineNext ==
    \/ Call_emi
    \/ Call_predict
    \/ Call_profile_risk
    \/ Call_explain_profile
    \/ Call_build_offers

EngineSpec == EngineInit /\ [][EngineNext]_vars

-----------------------------------------------------------------------------
(* Properties of the engine functions, stated for EngineSpec.              *)

IsCall(fn) == call.fn = fn

\* C1. No offer on denial: a call of build_offers with prediction # 1 returns the
\* empty list, raises nothing, and enters the body of the lender loop for no lender,
\* whatever the profile (an unknown loan type and a zero income included).
C1_NoOfferOnDenial ==
    (IsCall("build_offers") /\ call.prediction # 1)
        => /\ call.ret.error = "none"
           /\ call.ret.offers = <<>>
           /\ call.ret.evaluated = 0
           /\ call.ret.divided = 0

\* a denied profile that an approval would have given offers
C1_Witness ==
    /\ IsCall("build_offers")
    /\ call.prediction # 1
    /\ call.profile.loan_type \in DOMAIN BANKS
    /\ call.profile.monthly_income > 0
    /\ build_offers(call.profile, 1, call.confidence).offers # <<>>
    /\ call.ret.offers = <<>>

\* the lender's two conditions on a profile at an annual rate
LenderAccepts(profile, bank, rate) ==
    /\ profile.credit_score >= bank.min_credit
    /\ (profile.existing_emi * Micro
            + emi(profile.loan_amount, rate, profile.tenure_months))
           \div profile.monthly_income <= bank.max_foir

OffersOf(offers, bank) == {j \in 1..Len(offers) : offers[j].bank = bank.name}

RankedBefore(a, b) ==
    \/ a.rate < b.rate
    \/ a.rate = b.rate /\ a.approval > b.approval
    \/ a.rate = b.rate /\ a.approval = b.approval /\ a.emi <= b.emi

\* C3. Ranking: for any two offers A, B of the list build_offers returns, A stands
\* before B iff A.rate < B.rate, or the rates are equal and A.approval > B.approval,
\* or both are equal and A.emi <= B.emi.
C3_RankingCorrect ==
    (IsCall("build_offers") /\ call.ret.error = "none")
        => LET offers == call.ret.offers
           IN  \A i, j \in 1..Len(offers) :
                   i # j => ((i < j) <=> RankedBefore(offers[i], offers[j]))

\* the ranking differs from the catalog order of the same lenders
C3_Witness ==
    /\ IsCall("build_offers")
    /\ call.ret.error = "none"
    /\ Len(call.ret.offers) >= 3
    /\ \E i, j \in 1..Len(call.ret.offers) :
           /\ i < j
           /\ \E m, n \in 1..Len(BANKS[call.profile.loan_type]) :
                  /\ n < m
                  /\ BANKS[call.profile.loan_type][m].name = call.ret.offers[i].bank
                  /\ BANKS[call.profile.loan_type][n].name = call.ret.offers[j].bank

EmploymentCoefficients == {EMPLOYMENT_STABILITY[e] : e \in DOMAIN EMPLOYMENT_STABILITY}

AtRiskBoundary ==
    /\ IsCall("profile_risk")
    /\ call.credit_score = 650
    /\ call.foir = 550000
    /\ call.stability \in EmploymentCoefficients

\* C5 as stated: with credit_score = 650 and foir exactly 0.55 the label is
\* "Medium", for each stability coefficient of the employment categories.
C5_BoundaryIsMedium == AtRiskBoundary => call.ret.label = "Medium"

\* C5 as amended: with credit_score = 650 and foir exactly 0.55 both inclusive bands
\* apply (-10 and -5), the score is 73 (salaried), 85 (self_employed) or 95
\* (freelancer), and the label is "High".
C5_BoundaryIsHigh ==
    AtRiskBoundary
        => /\ call.ret.label = "High"
           /\ call.ret.score = (IF call.stability = 100 THEN 73
                                ELSE IF call.stability = 85 THEN 85 ELSE 95)

C5_Witness == AtRiskBoundary /\ call.stability = 100 /\ call.ret.score = 73

\* C6. A zero monthly_income that reaches the FOIR division of build_offers is
\* answered with an InvalidProfile error.
C6_ZeroIncomeIsInvalidProfile ==
    (IsCall("build_offers") /\ call.profile.monthly_income = 0 /\ call.ret.divided > 0)
        => call.ret.error = "InvalidProfile"

\* C7. A loan_type that is no key of the catalog is answered with an UnknownLoanType
\* error, never with an empty offer list.
C7_UnknownLoanTypeIsAnError ==
    (IsCall("build_offers") /\ call.profile.loan_type \notin DOMAIN BANKS)
        => /\ call.ret.error = "UnknownLoanType"
           /\ ~(call.ret.error = "none" /\ call.ret.offers = <<>>)

\* C8. Clamping and labels: the score profile_risk returns is within 5..95, and the
\* label is "Low" iff score <= 35, "Medium" iff 35 < score <= 60, "High" iff score > 60.
C8_RiskScoreClamped ==
    IsCall("profile_risk")
        => /\ 5 <= call.ret.score /\ call.ret.score <= 95
           /\ call.ret.label \in {"Low", "Medium", "High"}
           /\ call.ret.label = "Low" <=> call.ret.score <= 35
           /\ call.ret.label = "Medium" <=> (35 < call.ret.score /\ call.ret.score <= 60)
           /\ call.ret.label = "High" <=> call.ret.score > 60

\* the adjustments add up to more than 95 and the clamp cuts the score
C8_Witness == IsCall("profile_risk") /\ call.raw > 95 /\ call.ret.score = 95

InSeq(x, seq) == \E i \in 1..Len(seq) : seq[i] = x

\* C9. With risk_label "High" the cautions explain_profile returns are not empty;
\* the generic sensitivity caution is there only when no earlier rule gave a caution
\* (credit_score >= 670, foir not above 0.55, confidence >= 55) and the label is
\* "High", and then it is the last and the only caution.
C9_HighRiskHasCaution ==
    IsCall("explain_profile")
        => LET cautions == call.ret.cautions
           IN  /\ call.risk_label = "High" => cautions # <<>>
               /\ InSeq(CautionSensitive, cautions)
                      => /\ call.risk_label = "High"
                         /\ call.data.credit_score >= 670
                         /\ call.data.foir <= 550000
                         /\ call.decision_confidence >= 55
                         /\ cautions = <<CautionSensitive>>
               /\ (call.risk_label = "High" /\ ~InSeq(CautionSensitive, cautions))
                      => \/ call.data.credit_score < 670
                         \/ call.data.foir > 550000
                         \/ call.decision_confidence < 55

C9_Witness ==
    /\ IsCall("explain_profile")
    /\ call.risk_label = "High"
    /\ call.ret.cautions = <<CautionSensitive>>
    /\ call.ret.reasons # <<>>

-----------------------------------------------------------------------------
(* Properties of the request handlers, stated for Spec.                    *)

IsResult == resp.kind = "render" /\ resp.template = "result.html"

\* C4. Decision status: a result is APPROVED exactly when prediction = 1 and the
\* offer list is not empty, CONDITIONAL exactly when prediction = 1 and it is empty,
\* REJECTED exactly when prediction # 1; a REJECTED result carries no offer and an
\* APPROVED result carries a best offer, the first of the list.
C4_DecisionStatus ==
    IsResult
        => /\ resp.status = "APPROVED" <=> (resp.prediction = 1 /\ resp.offers # <<>>)
           /\ resp.status = "CONDITIONAL" <=> (resp.prediction = 1 /\ resp.offers = <<>>)
           /\ resp.status = "REJECTED" <=> resp.prediction # 1
           /\ resp.status = "REJECTED"
                  => (resp.offers = <<>> /\ resp.best_offer = NoOffer)
           /\ resp.status = "APPROVED"
                  => (resp.best_offer # NoOffer /\ resp.best_offer = resp.offers[1])

\* an approval for which no lender of the bucket made an offer
C4_Witness ==
    /\ IsResult
    /\ resp.prediction = 1
    /\ resp.offers = <<>>
    /\ resp.status = "CONDITIONAL"
    /\ resp.best_offer = NoOffer

\* the constraints of an applicant profile
ProfileConstraints(profile) ==
    /\ profile.loan_type \in DOMAIN BANKS
    /\ 21 <= profile.age /\ profile.age <= 65
    /\ FGt(profile.monthly_income, 0)
    /\ FGt(profile.loan_amount, 0)
    /\ profile.tenure_months >= 12
    /\ FGe(profile.monthly_expenses, 0)
    /\ FGe(profile.existing_emi, 0)
    /\ 300 <= profile.credit_score /\ profile.credit_score <= 900

\* C10. Validation gate: the engine functions are invoked only for a logged-in
\* request whose profile satisfies every constraint; a redirect carries no decision
\* and follows no engine call.
C10_ValidationGate ==
    /\ resp.kind \in {"render", "error"} /\ resp.calls # <<>>
           => (session # "" /\ ProfileConstraints(resp.profile))
    /\ resp.kind = "redirect" => resp.calls = <<>>
====
